---- MODULE Spec2Model ----
(***************************************************************************)
(* Model of the ggrc-core excerpt:                                         *)
(*   - ggrc.gcalendar.calendar_event_builder.CalendarEventBuilder          *)
(*   - ggrc.converters.base.ImportConverter / ExportConverter              *)
(***************************************************************************)
EXTENDS FiniteSets, Integers, Sequences, TLC

VARIABLES
  \* ---- CalendarEventBuilder._should_create_event_for (pure predicate) ----
  task,           \* the CycleTaskGroupObjectTask handed to the predicate
  should_result,  \* <<>> before the call, afterwards <<the returned boolean>>
  \* ---- ExportConverter ----
  ids_by_type,         \* self.ids_by_type: list of object queries
  eq_arg,              \* the exportable_queries argument of __init__
  exportable_queries,  \* self.exportable_queries
  block_converters,    \* self.block_converters
  queries,             \* initialize_block_converters: local exportable_queries
  xpc,                 \* position inside export_csv_data
  xi,                  \* loop index of the running for loop
  csv_string_builder,  \* CsvStringBuilder: its table width and appended lines
  build_exc,           \* exception raised inside build_csv_from_row_data
  export_result,       \* <<>> until export_csv_data returns, then <<value>>
  \* ---- ImportConverter ----
  csv_blocks,          \* the blocks split_blocks finds in self.csv_data
  dry_run,             \* self.dry_run
  settings,            \* ISSUE_TRACKER_ENABLED and MEMCACHE_MECHANISM
  response_data,       \* self.response_data
  revision_ids,        \* import_csv_data: local revision_ids
  ipc,                 \* position inside import_csv_data
  ii,                  \* number of block converters the generator has yielded
  calls,               \* the calls import_csv_data has made, in order
  memcache,            \* "warm" until MemCache().clean() makes it "clean"
  \* ---- CalendarEventBuilder and the database it works on ----
  db_tasks,            \* CycleTaskGroupObjectTask rows, by task id
  db_events,           \* CalendarEvent rows, by event id
  db_relationships,    \* Relationship rows: <<task id, event id>>
  edits,               \* edits made to the tasks between builder runs
  task_mappings,       \* self.task_mappings: task id -> set of event ids
  event_mappings,      \* self.event_mappings: event id -> set of task ids
  tasks,               \* self.tasks
  cpc,                 \* position inside build_cycle_tasks
  ci,                  \* _generate_events: tasks taken from self.tasks so far
  events_ids,          \* _generate_events_for_task: local events_ids
  persons_todo,        \* persons the for loop of line 82 has yet to take
  deleted_todo,        \* event ids the for loop of line 92 has yet to take
  di                   \* _generate_event_descriptions: events taken so far

shouldVars == <<task, should_result>>
exportVars == <<ids_by_type, eq_arg, exportable_queries, block_converters,
                queries, xpc, xi, csv_string_builder, build_exc, export_result>>
importVars == <<csv_blocks, dry_run, settings, response_data, revision_ids,
                ipc, ii, calls, memcache>>
calVars == <<db_tasks, db_events, db_relationships, edits, task_mappings,
             event_mappings, tasks, cpc, ci, events_ids, persons_todo,
             deleted_todo, di>>
vars == <<shouldVars, exportVars, importVars, calVars>>

(***************************************************************************)
(* CycleTaskGroupObjectTask: statuses and the attributes the eligibility   *)
(* predicate reads.                                                        *)
(***************************************************************************)
ASSIGNED    == "Assigned"
IN_PROGRESS == "In Progress"
FINISHED    == "Finished"
DECLINED    == "Declined"
VERIFIED    == "Verified"
DEPRECATED  == "Deprecated"

TaskStatuses == {ASSIGNED, IN_PROGRESS, FINISHED, DECLINED, VERIFIED, DEPRECATED}

\* The attributes of a task read by _should_create_event_for.
TaskFlags ==
  [status : TaskStatuses,
   is_verification_needed : BOOLEAN,
   is_in_history : BOOLEAN,
   is_overdue : BOOLEAN,
   workflow_archived : BOOLEAN]

\* any(conditions)
any(conditions) == \E i \in 1..Len(conditions) : conditions[i]

\* A slip of the predicate: the overdue condition is left out.
_should_create_event_for_mut(t) ==
  LET conditions ==
        << t.status \in {DEPRECATED, VERIFIED},
           t.status = FINISHED /\ ~t.is_verification_needed,
           t.is_in_history,
           t.workflow_archived >>
  IN  ~any(conditions)

\* CalendarEventBuilder._should_create_event_for
_should_create_event_for(t) ==
  LET conditions ==
        << t.status \in {DEPRECATED, VERIFIED},
           t.status = FINISHED /\ ~t.is_verification_needed,
           t.is_in_history,
           t.is_overdue,
           t.workflow_archived >>
  IN  ~any(conditions)

\* The task of a run that does not call the predicate.
NoTask ==
  [status |-> ASSIGNED, is_verification_needed |-> FALSE,
   is_in_history |-> FALSE, is_overdue |-> FALSE, workflow_archived |-> FALSE]

ShouldIdle ==
  /\ task = NoTask
  /\ should_result = <<>>

(***************************************************************************)
(* CalendarEventBuilder: the rows it reads and writes                      *)
(***************************************************************************)
MaxEdits == 2       \* most edits of the tasks between builder runs

TaskIds == {1, 2}
Persons == {1, 2}
Dates   == {1, 2}

\* The attributes of a task the builder looks at between two runs.
OverdueTask == [NoTask EXCEPT !.is_overdue = TRUE]
TaskProfiles == {NoTask, OverdueTask}

\* Person ids by role name: Task Assignees, Task Secondary Assignees.
RoleHolders ==
  { [assignees |-> {1}, secondary |-> {}],
    [assignees |-> {2}, secondary |-> {1, 2}] }

TaskTitles == [i \in TaskIds |-> IF i = 1 THEN "first task" ELSE "other task"]

CycleTasks ==
  [end_date : Dates, flags : TaskProfiles, roles : RoleHolders]

EmptyMap == [k \in {} |-> {}]

\* The calendar variables of a run that does not build calendar events.
CalendarIdle ==
  /\ db_tasks = EmptyMap
  /\ db_events = EmptyMap
  /\ db_relationships = {}
  /\ edits = 0
  /\ task_mappings = EmptyMap
  /\ event_mappings = EmptyMap
  /\ tasks = <<>>
  /\ cpc = "unused"
  /\ ci = 0
  /\ events_ids = {}
  /\ persons_todo = {}
  /\ deleted_todo = {}
  /\ di = 0

(***************************************************************************)
(* Inputs of ImportConverter                                               *)
(***************************************************************************)
MaxBlocks == 2      \* most blocks in the csv data
MaxRevs   == 1      \* most revisions the import of one block creates

\* A block of the csv data, by what its block converter does with it: whether
\* check_block_restrictions leaves it marked ignore, and how many revisions
\* importing it creates.
CsvBlocks == [ignore : BOOLEAN, revs : 0..MaxRevs]

Settings == [ISSUE_TRACKER_ENABLED : BOOLEAN, MEMCACHE_MECHANISM : BOOLEAN]

\* The import variables of a run that is not an import.
ImportIdle ==
  /\ csv_blocks = <<>>
  /\ dry_run = TRUE
  /\ settings = [ISSUE_TRACKER_ENABLED |-> FALSE, MEMCACHE_MECHANISM |-> FALSE]
  /\ response_data = <<>>
  /\ revision_ids = <<>>
  /\ ipc = "idle"
  /\ ii = 0
  /\ calls = <<>>
  /\ memcache = "warm"

(***************************************************************************)
(* ExportConverter                                                         *)
(***************************************************************************)
MaxQueries == 2     \* longest ids_by_type list
MaxIds     == 1     \* most object ids in one object query

Range(seq) == {seq[i] : i \in 1..Len(seq)}
SeqsUpTo(S, n) == UNION {[1..k -> S] : k \in 0..n}

ObjectNames == {"Control", "Snapshot"}
FieldCounts == {1, 2}

\* An object query: {"object_name": ..., "ids": [...], "fields": [...]};
\* fields is kept as the number of exported columns.
ObjectQueries ==
  [object_name : ObjectNames,
   ids : {[i \in 1..n |-> i] : n \in 0..MaxIds},
   fields : FieldCounts]

\* A csv cell.
Cell(kind, name, col, id) == [k |-> kind, n |-> name, c |-> col, o |-> id]
TextCell(text) == Cell(text, "", 0, 0)

NoBuilder == [table_width |-> 0, lines |-> <<>>]
NoArg == [given |-> FALSE, value |-> <<>>]

\* The export variables of a run that is not an export.
ExportIdle ==
  /\ ids_by_type = <<>>
  /\ eq_arg = NoArg
  /\ exportable_queries = <<>>
  /\ block_converters = <<>>
  /\ queries = <<>>
  /\ xpc = "idle"
  /\ xi = 0
  /\ csv_string_builder = NoBuilder
  /\ build_exc = "none"
  /\ export_result = <<>>

\* ExportConverter.__init__: exportable_queries or []
OrEmptyList(arg) == IF arg.given /\ arg.value # <<>> THEN arg.value ELSE <<>>

\* [x for index, x in enumerate(lst) if index in wanted], from position k on
RECURSIVE FilterByIndex(_, _, _)
FilterByIndex(lst, wanted, k) ==
  IF k > Len(lst) THEN <<>>
  ELSE (IF (k - 1) \in Range(wanted) THEN <<lst[k]>> ELSE <<>>)
       \o FilterByIndex(lst, wanted, k + 1)

\* A slip: the enumerate index is taken 1-based.
_get_exportable_queries_mut(ids, wanted) ==
  IF wanted # <<>>
    THEN LET RECURSIVE F(_)
             F(k) == IF k > Len(ids) THEN <<>>
                     ELSE (IF k \in Range(wanted) THEN <<ids[k]>> ELSE <<>>)
                          \o F(k + 1)
         IN  F(1)
    ELSE ids

\* ExportConverter._get_exportable_queries
_get_exportable_queries(ids, wanted) ==
  IF wanted # <<>>
    THEN FilterByIndex(ids, wanted, 1)
    ELSE ids

\* SnapshotBlockConverter(self, object_ids, fields=fields) or
\* base_block.ExportBlockConverter(self, object_class=..., fields=..., ...)
NewBlockConverter(object_data) ==
  [name |-> object_data.object_name,
   class |-> IF object_data.object_name = "Snapshot"
               THEN "SnapshotBlockConverter" ELSE "ExportBlockConverter",
   block_width |-> object_data.fields,
   object_ids |-> object_data.ids]

\* block_converter.generate_csv_header(): the two header lines of the block
generate_csv_header(bc) ==
  << [i \in 1..bc.block_width |-> Cell("title", bc.name, i, 0)],
     [i \in 1..bc.block_width |-> Cell("column", bc.name, i, 0)] >>

\* block_converter.generate_row_data(): one line per exported object
generate_row_data(bc) ==
  [r \in 1..Len(bc.object_ids) |->
     [i \in 1..bc.block_width |-> Cell("value", bc.name, i, bc.object_ids[r])]]

\* list.insert(0, x)
InsertFirst(line, x) == <<x>> \o line

\* max of a non-empty list of numbers
max(lst) == CHOOSE m \in Range(lst) : \A n \in Range(lst) : n <= m

InitExport ==
  /\ ids_by_type \in SeqsUpTo(ObjectQueries, MaxQueries)
  /\ eq_arg \in {NoArg} \cup
       {[given |-> TRUE, value |-> v] : v \in SeqsUpTo(0..MaxQueries, 2)}
  /\ exportable_queries = OrEmptyList(eq_arg)
  /\ block_converters = <<>>
  /\ queries = <<>>
  /\ xpc = "start"
  /\ xi = 0
  /\ csv_string_builder = NoBuilder
  /\ build_exc = "none"
  /\ export_result = <<>>
  /\ ShouldIdle
  /\ ImportIdle
  /\ CalendarIdle

\* initialize_block_converters, line 162: the filtered object queries
GetExportableQueries ==
  /\ xpc = "start"
  /\ queries' = _get_exportable_queries(ids_by_type, exportable_queries)
  /\ xi' = 1
  /\ xpc' = "init_blocks"
  /\ UNCHANGED <<ids_by_type, eq_arg, exportable_queries, block_converters,
                 csv_string_builder, build_exc, export_result, shouldVars, importVars, calVars>>

\* initialize_block_converters: one pass of the for loop
AppendBlockConverter ==
  /\ xpc = "init_blocks"
  /\ xi <= Len(queries)
  /\ block_converters' = Append(block_converters, NewBlockConverter(queries[xi]))
  /\ xi' = xi + 1
  /\ UNCHANGED <<ids_by_type, eq_arg, exportable_queries, queries, xpc,
                 csv_string_builder, build_exc, export_result, shouldVars, importVars, calVars>>

\* The table width handed to CsvStringBuilder, lines 194-196.
TableWidth(bcs) ==
  max([i \in 1..Len(bcs) |-> bcs[i].block_width]) + 1

\* build_csv_from_row_data, lines 194-198; max([]) raises ValueError
BuildTableWidth ==
  /\ xpc = "init_blocks"
  /\ xi > Len(queries)
  /\ IF block_converters = <<>>
       THEN /\ build_exc' = "ValueError"
            /\ xpc' = "raised"
            /\ UNCHANGED csv_string_builder
       ELSE /\ csv_string_builder' =
                 [table_width |-> TableWidth(block_converters), lines |-> <<>>]
            /\ xpc' = "emit"
            /\ UNCHANGED build_exc
  /\ xi' = 1
  /\ UNCHANGED <<ids_by_type, eq_arg, exportable_queries, block_converters,
                 queries, export_result, shouldVars, importVars, calVars>>

\* The two append_line([]) calls closing a block.
BlockTrailer_mut == << <<>> >>

BlockTrailer == << <<>>, <<>> >>

\* The lines build_csv_from_row_data appends for one block converter.
BlockAppendedLines(bc) ==
  LET csv_header == generate_csv_header(bc)
      rows == generate_row_data(bc)
  IN  << InsertFirst(csv_header[1], TextCell("Object type")),
         InsertFirst(csv_header[2], TextCell(bc.name)) >>
      \o [r \in 1..Len(rows) |-> InsertFirst(rows[r], TextCell(""))]
      \o BlockTrailer

\* build_csv_from_row_data: one pass of the for loop over block_converters
EmitBlock ==
  /\ xpc = "emit"
  /\ xi <= Len(block_converters)
  /\ csv_string_builder' =
       [csv_string_builder EXCEPT
          !.lines = @ \o BlockAppendedLines(block_converters[xi])]
  /\ xi' = xi + 1
  /\ UNCHANGED <<ids_by_type, eq_arg, exportable_queries, block_converters,
                 queries, xpc, build_exc, export_result, shouldVars, importVars, calVars>>

\* build_csv_from_row_data: a block converter raises ValueError while its
\* header or rows are generated
EmitRaisesValueError ==
  /\ xpc = "emit"
  /\ xi <= Len(block_converters)
  /\ build_exc' = "ValueError"
  /\ xpc' = "raised"
  /\ UNCHANGED <<ids_by_type, eq_arg, exportable_queries, block_converters,
                 queries, xi, csv_string_builder, export_result, shouldVars, importVars, calVars>>

\* The values export_csv_data returns.
EmptyString == [kind |-> "str", table_width |-> 0, lines |-> <<>>]
CsvString(b) == [kind |-> "csv", table_width |-> b.table_width, lines |-> b.lines]

\* build_csv_from_row_data, line 214, returned through export_csv_data
ReturnCsvString ==
  /\ xpc = "emit"
  /\ xi > Len(block_converters)
  /\ export_result' = <<CsvString(csv_string_builder)>>
  /\ xpc' = "done"
  /\ UNCHANGED <<ids_by_type, eq_arg, exportable_queries, block_converters,
                 queries, xi, csv_string_builder, build_exc, shouldVars, importVars, calVars>>

\* The exceptions the except clause of export_csv_data catches.
Caught_mut(exc) == exc = "KeyError"

Caught(exc) == exc = "ValueError"

\* export_csv_data, lines 189-190
ExceptValueError ==
  /\ xpc = "raised"
  /\ IF Caught(build_exc)
       THEN /\ export_result' = <<EmptyString>>
            /\ xpc' = "done"
       ELSE /\ xpc' = "escaped"
            /\ UNCHANGED export_result
  /\ UNCHANGED <<ids_by_type, eq_arg, exportable_queries, block_converters,
                 queries, xi, csv_string_builder, build_exc, shouldVars, importVars, calVars>>

NextExport ==
  \/ GetExportableQueries
  \/ AppendBlockConverter
  \/ BuildTableWidth
  \/ EmitBlock
  \/ EmitRaisesValueError
  \/ ReturnCsvString
  \/ ExceptValueError

SpecExport == InitExport /\ [][NextExport]_vars

\* The positions of ids_by_type (1-based) whose index is in the argument.
SelectedPositions ==
  {i \in 1..Len(ids_by_type) : (i - 1) \in Range(eq_arg.value)}

\* The k-th smallest selected position.
KthSelected(k) ==
  CHOOSE i \in SelectedPositions :
    Cardinality({j \in SelectedPositions : j < i}) = k - 1

\* C3: _get_exportable_queries returns, for a non-empty exportable_queries,
\* exactly the entries of ids_by_type whose index is listed, in their original
\* order (an index out of range selects nothing), and all of ids_by_type when
\* exportable_queries is empty or not given.
C3_ExportableQueries ==
  xpc \notin {"idle", "start"} =>
    IF eq_arg.given /\ eq_arg.value # <<>>
      THEN /\ Len(queries) = Cardinality(SelectedPositions)
           /\ \A k \in 1..Len(queries) : queries[k] = ids_by_type[KthSelected(k)]
      ELSE queries = ids_by_type

\* Two different queries, indexes 1 and 2 asked for: only the second query is
\* returned, index 2 being out of range.
C3_Witness ==
  /\ xpc = "init_blocks"
  /\ Len(ids_by_type) = 2
  /\ ids_by_type[1] # ids_by_type[2]
  /\ Range(eq_arg.value) = {1, 2}
  /\ queries = <<ids_by_type[2]>>

\* Number of lines of the blocks before block b.
RECURSIVE BlockOffset(_)
BlockOffset(b) ==
  IF b = 1 THEN 0
  ELSE BlockOffset(b - 1) + Len(block_converters[b - 1].object_ids) + 4

C8_ValueErrorIsEmptyString ==
  /\ build_exc = "ValueError" => xpc # "escaped"
  /\ (xpc = "done" /\ build_exc = "ValueError") => export_result = <<EmptyString>>
  /\ (xpc \in {"done", "escaped"} /\ queries = <<>>) =>
       /\ block_converters = <<>>
       /\ export_result = <<EmptyString>>

\* Object queries were given, none of them exportable: the export is "".
C8_Witness ==
  /\ xpc = "done"
  /\ build_exc = "ValueError"
  /\ ids_by_type # <<>>
  /\ queries = <<>>
  /\ export_result = <<EmptyString>>

\* A block converter raised ValueError after a block was appended.
C8_WitnessBlock ==
  /\ xpc = "done"
  /\ build_exc = "ValueError"
  /\ csv_string_builder.lines # <<>>
  /\ export_result = <<EmptyString>>

(***************************************************************************)
(* ImportConverter                                                         *)
(***************************************************************************)
\* base_block.ImportBlockConverter(...) for the b-th block, after
\* check_block_restrictions()
ImportBlockConverter(b) ==
  [offset |-> b, ignore |-> csv_blocks[b].ignore]

\* converter.revision_ids after converter.import_csv_data()
ConverterRevisionIds(b) ==
  [k \in 1..csv_blocks[b].revs |-> <<b, k>>]

\* converter.get_info()
ConverterInfo(converter) == [block |-> converter.offset, ignored |-> converter.ignore]

InitImport ==
  /\ csv_blocks \in SeqsUpTo(CsvBlocks, MaxBlocks)
  /\ dry_run \in BOOLEAN
  /\ settings \in Settings
  /\ response_data = <<>>
  /\ revision_ids = <<>>
  /\ ipc = "blocks"
  /\ ii = 0
  /\ calls = <<>>
  /\ memcache = "warm"
  /\ ShouldIdle
  /\ ExportIdle
  /\ CalendarIdle

\* A slip: the ignore mark of the converter is not looked at.
ConverterIsImported_mut(converter) == TRUE

\* import_csv_data, line 90: if not converter.ignore
ConverterIsImported(converter) == ~converter.ignore

\* import_csv_data, lines 89-93: one pass of the for loop
ImportBlock ==
  /\ ipc = "blocks"
  /\ ii < Len(csv_blocks)
  /\ LET b == ii + 1
         converter == ImportBlockConverter(b)
     IN  /\ IF ConverterIsImported(converter)
              THEN /\ calls' = Append(calls, <<"import_csv_data", b>>)
                   /\ revision_ids' = revision_ids \o ConverterRevisionIds(b)
              ELSE UNCHANGED <<calls, revision_ids>>
         /\ response_data' = Append(response_data, ConverterInfo(converter))
         /\ ii' = b
  /\ UNCHANGED <<csv_blocks, dry_run, settings, ipc, memcache,
                 shouldVars, exportVars, calVars>>

\* import_csv_data, line 94, with _start_compute_attributes_job
StartComputeAttributesJob ==
  /\ ipc = "blocks"
  /\ ii = Len(csv_blocks)
  /\ calls' = IF revision_ids # <<>>
                THEN Append(calls, <<"deferred.defer", Len(revision_ids)>>)
                ELSE calls
  /\ ipc' = "issuetracker"
  /\ UNCHANGED <<csv_blocks, dry_run, settings, response_data, revision_ids,
                 ii, memcache, shouldVars, exportVars, calVars>>

\* import_csv_data, lines 95-96, with _start_issuetracker_update
StartIssuetrackerUpdate ==
  /\ ipc = "issuetracker"
  /\ calls' = IF ~dry_run /\ settings.ISSUE_TRACKER_ENABLED
                THEN Append(calls, <<"background_update_issues", Len(revision_ids)>>)
                ELSE calls
  /\ ipc' = "drop_cache"
  /\ UNCHANGED <<csv_blocks, dry_run, settings, response_data, revision_ids,
                 ii, memcache, shouldVars, exportVars, calVars>>

\* import_csv_data, line 97, with drop_cache
DropCache ==
  /\ ipc = "drop_cache"
  /\ calls' = Append(calls, <<"drop_cache", 0>>)
  /\ memcache' = IF settings.MEMCACHE_MECHANISM THEN "clean" ELSE memcache
  /\ ipc' = "done"
  /\ UNCHANGED <<csv_blocks, dry_run, settings, response_data, revision_ids,
                 ii, shouldVars, exportVars, calVars>>

NextImport ==
  \/ ImportBlock
  \/ StartComputeAttributesJob
  \/ StartIssuetrackerUpdate
  \/ DropCache

SpecImport == InitImport /\ [][NextImport]_vars

\* The positions of calls at which the call named kind was made.
CallsOf(kind) == {i \in 1..Len(calls) : calls[i][1] = kind}

\* C4: import_csv_data handles the blocks in csv order; an ignored block is
\* never imported and adds no revision id, yet response_data ends with one
\* info entry per block in csv order; the computed-attributes job is deferred
\* only after all blocks and only with a revision id collected; the issue
\* tracker update needs dry_run false and ISSUE_TRACKER_ENABLED; drop_cache
\* is the last step.
C4_ImportOrder ==
  /\ \A i, j \in CallsOf("import_csv_data") : i < j => calls[i][2] < calls[j][2]
  /\ \A i \in CallsOf("import_csv_data") : ~csv_blocks[calls[i][2]].ignore
  /\ \A b \in 1..Len(csv_blocks) :
       csv_blocks[b].ignore => \A r \in Range(revision_ids) : r[1] # b
  /\ \A b \in 1..ii :
       ~csv_blocks[b].ignore =>
          \E i \in CallsOf("import_csv_data") : calls[i][2] = b
  /\ Len(response_data) = ii
  /\ \A b \in 1..Len(response_data) : response_data[b].block = b
  /\ ipc = "done" => Len(response_data) = Len(csv_blocks)
  /\ \A d \in CallsOf("deferred.defer") :
       /\ ii = Len(csv_blocks)
       /\ revision_ids # <<>>
       /\ \A i \in CallsOf("import_csv_data") : i < d
  /\ CallsOf("background_update_issues") # {} =>
       ~dry_run /\ settings.ISSUE_TRACKER_ENABLED
  /\ \A c \in CallsOf("drop_cache") : c = Len(calls)
  /\ ipc = "done" => CallsOf("drop_cache") = {Len(calls)}

\* An ignored block that would have given a revision, then an imported one:
\* the job is deferred, the tracker updated, the cache dropped.
C4_Witness ==
  /\ ipc = "done"
  /\ Len(csv_blocks) = 2
  /\ csv_blocks[1].ignore /\ csv_blocks[1].revs > 0
  /\ ~csv_blocks[2].ignore /\ csv_blocks[2].revs > 0
  /\ Len(response_data) = 2
  /\ CallsOf("deferred.defer") # {}
  /\ CallsOf("background_update_issues") # {}
  /\ memcache = "clean"

(***************************************************************************)
(* CalendarEventBuilder                                                    *)
(***************************************************************************)
\* A CycleTaskGroupObjectTask row.
TaskRow(i, t) ==
  [id |-> i, title |-> TaskTitles[i], end_date |-> t.end_date,
   flags |-> t.flags, roles |-> t.roles]

\* defaultdict(set): the value under a key, the empty set for a missing key
MapGet(m, k) == IF k \in DOMAIN m THEN m[k] ELSE {}

\* defaultdict(set): m[k].add(v)
MapAdd(m, k, v) ==
  IF k \in DOMAIN m THEN [m EXCEPT ![k] = @ \cup {v}] ELSE m @@ (k :> {v})

\* defaultdict(set): m[k].discard(v)
MapDiscard(m, k, v) ==
  IF k \in DOMAIN m THEN [m EXCEPT ![k] = @ \ {v}] ELSE m @@ (k :> {})

\* utils.get_related_mapping(left=CycleTaskGroupObjectTask, right=CalendarEvent):
\* the two mappings the relationships between tasks and events give
get_related_mapping(rels) ==
  [left |-> [t \in {r[1] : r \in rels} |-> {r[2] : r \in {x \in rels : x[1] = t}}],
   right |-> [e \in {r[2] : r \in rels} |-> {r[1] : r \in {x \in rels : x[2] = e}}]]

\* utils.get_event_by_date_and_attendee: the ids of the events it may return
get_event_by_date_and_attendee(attendee_id, due_date) ==
  {e \in DOMAIN db_events :
     /\ db_events[e].attendee_id = attendee_id
     /\ db_events[e].due_date = due_date}

\* utils.get_relationship(left_id=event id, ..., right_id=task id, ...)
get_relationship(event_id, task_id) == <<task_id, event_id>> \in db_relationships

\* A slip: only the first role is notified.
_get_task_persons_ids_to_notify_mut(t) == t.roles.assignees

\* CalendarEventBuilder._get_task_persons_ids_to_notify
_get_task_persons_ids_to_notify(t) ==
  t.roles.assignees \cup t.roles.secondary

\* The id the database gives to the next CalendarEvent row.
NextEventId == Cardinality(DOMAIN db_events) + 1

\* event.due_date.strftime('%m/%d/%Y')
strftime(due_date) == IF due_date = 1 THEN "01/01/2019" ELSE "01/02/2019"

\* A piece of a description text.
Piece(kind, text) == [k |-> kind, v |-> text]

TASK_DESCRIPTION_HEADER == Piece("You have due tasks for today.\n", "")
\* TASK_DESCRIPTION_SUMMARY.format(link=utils.get_active_cycle_tasks_url(...))
TASK_DESCRIPTION_SUMMARY(due_date_str) == Piece("summary with link", due_date_str)
NewLine == Piece("\n", "")

\* sep.join(lst)
RECURSIVE join(_, _)
join(sep, lst) ==
  IF lst = <<>> THEN <<>>
  ELSE IF Len(lst) = 1 THEN <<lst[1]>>
  ELSE <<lst[1], sep>> \o join(sep, Tail(lst))

\* ["- {}".format(task.title) for task in self.tasks if task.id in task_ids]
RECURSIVE TitlesOf(_, _)
TitlesOf(loaded, task_ids) ==
  IF loaded = <<>> THEN <<>>
  ELSE (IF loaded[1].id \in task_ids
          THEN <<Piece("- ", loaded[1].title)>> ELSE <<>>)
       \o TitlesOf(Tail(loaded), task_ids)

\* CalendarEventBuilder._generate_description_for_event: the new description
_generate_description_for_event(event, task_ids) ==
  <<TASK_DESCRIPTION_HEADER>>
  \o join(NewLine, TitlesOf(tasks, task_ids)) \o <<NewLine>>
  \o <<TASK_DESCRIPTION_SUMMARY(strftime(event.due_date))>>

\* Query.all(): the rows of a table, here in the order of their ids
RECURSIVE QueryAll(_)
QueryAll(table) ==
  IF DOMAIN table = {} THEN <<>>
  ELSE LET first == CHOOSE i \in DOMAIN table : \A j \in DOMAIN table : i <= j
       IN  <<table[first]>> \o QueryAll([k \in DOMAIN table \ {first} |-> table[k]])

InitCalendar ==
  /\ db_tasks \in {[i \in TaskIds |-> TaskRow(i, f[i])] : f \in [TaskIds -> CycleTasks]}
  /\ db_events = EmptyMap
  /\ db_relationships = {}
  /\ edits = 0
  /\ task_mappings = EmptyMap
  /\ event_mappings = EmptyMap
  /\ tasks = <<>>
  /\ cpc = "new"
  /\ ci = 0
  /\ events_ids = {}
  /\ persons_todo = {}
  /\ deleted_todo = {}
  /\ di = 0
  /\ ShouldIdle
  /\ ExportIdle
  /\ ImportIdle

\* CalendarEventBuilder._preload_data
PreloadData ==
  /\ cpc = "new"
  /\ LET m == get_related_mapping(db_relationships)
     IN  /\ task_mappings' = m.left
         /\ event_mappings' = m.right
  /\ tasks' = QueryAll(db_tasks)
  /\ ci' = 0
  /\ cpc' = "generate"
  /\ UNCHANGED <<db_tasks, db_events, db_relationships, edits, events_ids,
                 persons_todo, deleted_todo, di,
                 shouldVars, exportVars, importVars>>

\* _generate_events_for_task, lines 77-82: the next task of self.tasks
BeginTask ==
  /\ cpc = "generate"
  /\ ci < Len(tasks)
  /\ LET t == tasks[ci + 1]
     IN  /\ events_ids' = MapGet(task_mappings, t.id)
         /\ persons_todo' = IF _should_create_event_for(t.flags)
                              THEN _get_task_persons_ids_to_notify(t)
                              ELSE {}
  /\ ci' = ci + 1
  /\ cpc' = "persons"
  /\ UNCHANGED <<db_tasks, db_events, db_relationships, edits, task_mappings,
                 event_mappings, tasks, deleted_todo, di,
                 shouldVars, exportVars, importVars>>

\* _generate_events_for_task, lines 82-91: one person to notify, with
\* _create_event_with_relationship or _create_event_relationship
NotifyPerson ==
  /\ cpc = "persons"
  /\ \E person_id \in persons_todo :
       LET t == tasks[ci]
           found == get_event_by_date_and_attendee(person_id, t.end_date)
       IN  /\ persons_todo' = persons_todo \ {person_id}
           /\ IF found = {}
                THEN LET id == NextEventId
                     IN  /\ db_events' = db_events @@
                               (id :> [attendee_id |-> person_id,
                                       due_date |-> t.end_date,
                                       description |-> <<>>])
                         /\ db_relationships' = db_relationships \cup {<<t.id, id>>}
                         /\ task_mappings' = MapAdd(task_mappings, t.id, id)
                         /\ event_mappings' = MapAdd(event_mappings, id, t.id)
                         /\ UNCHANGED events_ids
                ELSE \E event \in found :
                       /\ IF ~get_relationship(event, t.id)
                            THEN /\ db_relationships' =
                                      db_relationships \cup {<<t.id, event>>}
                                 /\ task_mappings' = MapAdd(task_mappings, t.id, event)
                                 /\ event_mappings' = MapAdd(event_mappings, event, t.id)
                            ELSE UNCHANGED <<db_relationships, task_mappings,
                                             event_mappings>>
                       /\ events_ids' = events_ids \ {event}
                       /\ UNCHANGED db_events
  /\ UNCHANGED <<db_tasks, edits, tasks, cpc, ci, deleted_todo, di,
                 shouldVars, exportVars, importVars>>

\* The event ids the for loop of line 92 goes through.
EventsToDelete_mut(ids) == {}

EventsToDelete(ids) == ids

\* _generate_events_for_task, line 92: the persons are done, the loop over
\* the event ids left in events_ids starts
BeginDelete ==
  /\ cpc = "persons"
  /\ persons_todo = {}
  /\ deleted_todo' = EventsToDelete(events_ids)
  /\ cpc' = "delete"
  /\ UNCHANGED <<db_tasks, db_events, db_relationships, edits, task_mappings,
                 event_mappings, tasks, ci, events_ids, persons_todo, di,
                 shouldVars, exportVars, importVars>>

\* _generate_events_for_task, line 93, with _delete_event_relationship
DeleteEventRelationship ==
  /\ cpc = "delete"
  /\ \E event_id \in deleted_todo :
       LET task_id == tasks[ci].id
       IN  /\ deleted_todo' = deleted_todo \ {event_id}
           /\ IF get_relationship(event_id, task_id)
                THEN /\ db_relationships' = db_relationships \ {<<task_id, event_id>>}
                     /\ task_mappings' = MapDiscard(task_mappings, task_id, event_id)
                     /\ event_mappings' = MapDiscard(event_mappings, event_id, task_id)
                ELSE UNCHANGED <<db_relationships, task_mappings, event_mappings>>
  /\ UNCHANGED <<db_tasks, db_events, edits, tasks, cpc, ci, events_ids,
                 persons_todo, di, shouldVars, exportVars, importVars>>

\* _generate_events_for_task returns to the loop of _generate_events
EndTask ==
  /\ cpc = "delete"
  /\ deleted_todo = {}
  /\ cpc' = "generate"
  /\ UNCHANGED <<db_tasks, db_events, db_relationships, edits, task_mappings,
                 event_mappings, tasks, ci, events_ids, persons_todo,
                 deleted_todo, di, shouldVars, exportVars, importVars>>

\* _generate_events, line 73, then the query of _generate_event_descriptions
FlushAndLoadEvents ==
  /\ cpc = "generate"
  /\ ci = Len(tasks)
  /\ di' = 0
  /\ cpc' = "describe"
  /\ UNCHANGED <<db_tasks, db_events, db_relationships, edits, task_mappings,
                 event_mappings, tasks, ci, events_ids, persons_todo,
                 deleted_todo, shouldVars, exportVars, importVars>>

\* _generate_event_descriptions, line 183: the events that are described
IsDescribed_mut(event_id) == TRUE

IsDescribed(event_id) == event_id \in DOMAIN event_mappings

\* _generate_event_descriptions, lines 182-186: one event
DescribeEvent ==
  /\ cpc = "describe"
  /\ di < Cardinality(DOMAIN db_events)
  /\ LET id == di + 1
     IN  IF ~IsDescribed(id)
           THEN UNCHANGED db_events
           ELSE db_events' =
                  [db_events EXCEPT ![id].description =
                     _generate_description_for_event(
                        db_events[id], MapGet(event_mappings, id))]
  /\ di' = di + 1
  /\ UNCHANGED <<db_tasks, db_relationships, edits, task_mappings,
                 event_mappings, tasks, cpc, ci, events_ids, persons_todo,
                 deleted_todo, shouldVars, exportVars, importVars>>

\* build_cycle_tasks, line 43
Commit ==
  /\ cpc = "describe"
  /\ di = Cardinality(DOMAIN db_events)
  /\ cpc' = "idle"
  /\ UNCHANGED <<db_tasks, db_events, db_relationships, edits, task_mappings,
                 event_mappings, tasks, ci, events_ids, persons_todo,
                 deleted_todo, di, shouldVars, exportVars, importVars>>

\* Between two runs a user changes the due date, the state or the role
\* holders of a task.
EditTask ==
  /\ cpc = "idle"
  /\ edits < MaxEdits
  /\ \E i \in DOMAIN db_tasks, t \in CycleTasks :
       /\ TaskRow(i, t) # db_tasks[i]
       /\ db_tasks' = [db_tasks EXCEPT ![i] = TaskRow(i, t)]
  /\ edits' = edits + 1
  /\ UNCHANGED <<db_events, db_relationships, task_mappings, event_mappings,
                 tasks, cpc, ci, events_ids, persons_todo, deleted_todo, di,
                 shouldVars, exportVars, importVars>>

\* Between two runs a user deletes a task; its relationships go with it.
DeleteTask ==
  /\ cpc = "idle"
  /\ edits < MaxEdits
  /\ \E i \in DOMAIN db_tasks :
       /\ db_tasks' = [k \in DOMAIN db_tasks \ {i} |-> db_tasks[k]]
       /\ db_relationships' = {r \in db_relationships : r[1] # i}
  /\ edits' = edits + 1
  /\ UNCHANGED <<db_events, task_mappings, event_mappings,
                 tasks, cpc, ci, events_ids, persons_todo, deleted_todo, di,
                 shouldVars, exportVars, importVars>>

\* CalendarEventBuilder.__init__: the builder of the next run
NewBuilder ==
  /\ cpc = "idle"
  /\ task_mappings' = EmptyMap
  /\ event_mappings' = EmptyMap
  /\ tasks' = <<>>
  /\ cpc' = "new"
  /\ ci' = 0
  /\ events_ids' = {}
  /\ di' = 0
  /\ UNCHANGED <<db_tasks, db_events, db_relationships, edits, persons_todo,
                 deleted_todo, shouldVars, exportVars, importVars>>

NextCalendar ==
  \/ PreloadData
  \/ BeginTask
  \/ NotifyPerson
  \/ BeginDelete
  \/ DeleteEventRelationship
  \/ EndTask
  \/ FlushAndLoadEvents
  \/ DescribeEvent
  \/ Commit
  \/ EditTask
  \/ DeleteTask
  \/ NewBuilder

SpecCalendar == InitCalendar /\ [][NextCalendar]_vars

\* _generate_events_for_task has just returned for the task tasks[ci].
TaskJustHandled == cpc = "generate" /\ ci > 0

\* The events the database relates to the task.
EventsRelatedTo(task_id) ==
  {e \in DOMAIN db_events : <<task_id, e>> \in db_relationships}

\* C5: after _generate_events_for_task(task) for a task that should get
\* events, every holder of the role Task Assignees or Task Secondary
\* Assignees has a CalendarEvent with that person as attendee and task.end_date as
\* due date, related to the task and recorded in task_mappings[task.id].
C5_EventForEveryPerson ==
  (TaskJustHandled /\ _should_create_event_for(tasks[ci].flags)) =>
    LET t == tasks[ci]
    IN  \A p \in t.roles.assignees \cup t.roles.secondary :
          \E e \in DOMAIN db_events :
            /\ db_events[e].attendee_id = p
            /\ db_events[e].due_date = t.end_date
            /\ <<t.id, e>> \in db_relationships
            /\ e \in MapGet(task_mappings, t.id)

\* The second task has two persons to notify; one of its two events is
\* shared with the first task.
C5_Witness ==
  /\ TaskJustHandled
  /\ ci = 2
  /\ _should_create_event_for(tasks[ci].flags)
  /\ tasks[ci].roles.assignees \cup tasks[ci].roles.secondary = {1, 2}
  /\ Cardinality(EventsRelatedTo(tasks[ci].id)) = 2
  /\ \E e \in EventsRelatedTo(tasks[ci].id) : <<tasks[1].id, e>> \in db_relationships

\* C6: after _generate_events_for_task(task) no stale event is related to the
\* task: for a task that should get no event every relationship to an event
\* listed in task_mappings[task.id] is deleted and task_mappings[task.id] is
\* empty; otherwise the events still related have a current person to notify
\* as attendee and task.end_date as due date.
C6_NoStaleEvent ==
  TaskJustHandled =>
    LET t == tasks[ci]
    IN  IF ~_should_create_event_for(t.flags)
          THEN /\ \A e \in events_ids : <<t.id, e>> \notin db_relationships
               /\ MapGet(task_mappings, t.id) = {}
               /\ EventsRelatedTo(t.id) = {}
          ELSE \A e \in EventsRelatedTo(t.id) :
                 /\ db_events[e].attendee_id \in t.roles.assignees \cup t.roles.secondary
                 /\ db_events[e].due_date = t.end_date

\* A task that still gets events lost its relationship to the event of its
\* former due date.
C6_Witness ==
  /\ TaskJustHandled
  /\ _should_create_event_for(tasks[ci].flags)
  /\ EventsRelatedTo(tasks[ci].id) # {}
  /\ \E e \in events_ids :
       /\ db_events[e].due_date # tasks[ci].end_date
       /\ <<tasks[ci].id, e>> \notin db_relationships

\* A task that gets no event any more lost the relationships it had.
C6_WitnessRefused ==
  /\ TaskJustHandled
  /\ ~_should_create_event_for(tasks[ci].flags)
  /\ events_ids # {}

\* The loaded tasks (positions in self.tasks) mapped to the event.
TaskPositionsOf(event_id) ==
  {i \in 1..Len(tasks) : tasks[i].id \in MapGet(event_mappings, event_id)}

\* The description of the event without its line ends.
LinesOf(event_id) ==
  SelectSeq(db_events[event_id].description, LAMBDA piece : piece # NewLine)

\* The description is the header, one title line for each mapped loaded task
\* in the order of self.tasks, and the summary for the due date.
DescriptionListsMappedTasks(event_id) ==
  LET pos == TaskPositionsOf(event_id)
      n == Cardinality(pos)
      kth(k) == CHOOSE i \in pos : Cardinality({j \in pos : j < i}) = k - 1
      lines == LinesOf(event_id)
  IN  /\ Len(lines) = n + 2
      /\ lines[1] = TASK_DESCRIPTION_HEADER
      /\ \A k \in 1..n : lines[k + 1] = Piece("- ", tasks[kth(k)].title)
      /\ lines[n + 2] =
           TASK_DESCRIPTION_SUMMARY(strftime(db_events[event_id].due_date))

\* C7: _generate_event_descriptions leaves every event that is a key of
\* event_mappings with the header, a '- <title>' line for exactly the loaded
\* tasks mapped to it, in the order of self.tasks, and the summary for its
\* due date; an event that is no key of event_mappings keeps its description.
C7_Descriptions ==
  [][ /\ (cpc = "describe" /\ cpc' = "idle") =>
           \A e \in DOMAIN db_events \cap DOMAIN event_mappings :
              DescriptionListsMappedTasks(e)
      /\ cpc = "describe" =>
           \A e \in DOMAIN db_events \ DOMAIN event_mappings :
              db_events'[e].description = db_events[e].description ]_vars

\* After a run: an event that is a key lists its task, and the event of a
\* deleted task, no key of event_mappings, still lists that task.
C7_Witness ==
  /\ cpc = "idle"
  /\ \E e \in DOMAIN db_events \cap DOMAIN event_mappings :
       /\ event_mappings[e] # {}
       /\ Len(LinesOf(e)) = Cardinality(event_mappings[e]) + 2
  /\ \E e \in DOMAIN db_events \ DOMAIN event_mappings :
       /\ Len(LinesOf(e)) = 3
       /\ \A i \in 1..Len(tasks) : LinesOf(e)[2] # Piece("- ", tasks[i].title)

\* After a run: an event lists both tasks, in the order of self.tasks.
C7_WitnessTwoTitles ==
  /\ cpc = "idle"
  /\ \E e \in DOMAIN db_events \cap DOMAIN event_mappings :
       /\ Cardinality(event_mappings[e]) = 2
       /\ Len(db_events[e].description) = 6

(***************************************************************************)
(* Specification SpecShould: the predicate applied to every task.          *)
(***************************************************************************)
InitShould ==
  /\ task \in TaskFlags
  /\ should_result = <<>>
  /\ ExportIdle
  /\ ImportIdle
  /\ CalendarIdle

\* A call of _should_create_event_for(task).
CallShouldCreate ==
  /\ should_result = <<>>
  /\ should_result' = <<_should_create_event_for(task)>>
  /\ UNCHANGED <<task, exportVars, importVars, calVars>>

\* The caller turns to another task.
NextShouldTask ==
  /\ should_result # <<>>
  /\ task' \in TaskFlags
  /\ should_result' = <<>>
  /\ UNCHANGED <<exportVars, importVars, calVars>>

NextShould == CallShouldCreate \/ NextShouldTask

SpecShould == InitShould /\ [][NextShould]_vars

\* The six cases of the docstring, read off the task.
IsDeprecated(t)        == t.status = DEPRECATED
IsVerified(t)          == t.status = VERIFIED
IsFinishedNoVerify(t)  == t.status = FINISHED /\ ~t.is_verification_needed
IsInEndedCycle(t)      == t.is_in_history
IsOverdue(t)           == t.is_overdue
IsArchived(t)          == t.workflow_archived

\* C1: _should_create_event_for returns False for a task that is deprecated,
\* verified, finished without Verification flow, inside an ended cycle
\* (is_in_history), overdue or of an archived workflow, and True for a task
\* that is none of these.
C1_ShouldCreateEvent ==
  should_result # <<>> =>
    /\ (IsDeprecated(task) => should_result[1] = FALSE)
    /\ (IsVerified(task) => should_result[1] = FALSE)
    /\ (IsFinishedNoVerify(task) => should_result[1] = FALSE)
    /\ (IsInEndedCycle(task) => should_result[1] = FALSE)
    /\ (IsOverdue(task) => should_result[1] = FALSE)
    /\ (IsArchived(task) => should_result[1] = FALSE)
    /\ (  ~(\/ IsDeprecated(task) \/ IsVerified(task)
            \/ IsFinishedNoVerify(task) \/ IsInEndedCycle(task)
            \/ IsOverdue(task) \/ IsArchived(task))
        => should_result[1] = TRUE)

\* An overdue task that is otherwise eligible was refused.
C1_Witness ==
  /\ should_result = <<FALSE>>
  /\ task.is_overdue
  /\ task.status = IN_PROGRESS
  /\ ~task.is_in_history
  /\ ~task.workflow_archived

====
